---- MODULE Spec2Model ----
(***************************************************************************)
(* Model of the Canvas class of src/src/components/Canvas/Canvas.tsx: the  *)
(* sparse cell store with neighbour links, the adjacency mask, the region  *)
(* flood fill, the pan/zoom transform, the pointer state machine and the   *)
(* frame loop.                                                             *)
(*                                                                         *)
(* Cell objects live in a heap keyed by <<row, col, gen>>.  gen = 0 is the *)
(* object currently in cellData[row][col]; an object replaced by a repaint *)
(* keeps its identity under a gen >= 1 for as long as some link still      *)
(* refers to it.  A neighbour link is such a key (a reference), so a link  *)
(* to a replaced object is representable and is followed as the code       *)
(* follows it.                                                             *)
(***************************************************************************)
EXTENDS Integers, Sequences, FiniteSets, TLC

VARIABLES
    phase,            \* "new" | "ready" | "failed": the constructor's outcome
    cellData,         \* <<row, col>> -> cell, the objects stored in the grid
    detached,         \* <<row, col, gen>> -> cell, replaced objects still linked
    nextRegionId,
    fillStyle,
    currentTransform, \* [a, e, f]: scale and pan of the DOMMatrix
    shouldRender,
    mouseCellCoord,   \* <<>> (undefined) or <<row, col>>
    cursorMode,
    canvasHandlers,   \* event types with a listener on the canvas
    windowHandlers,   \* event types with a listener on window
    pendingFrames,    \* requestAnimationFrame callbacks not yet run
    frame,            \* what the last redraw put on the surface
    lastEvent,        \* the handler that ran last, with its inputs
    paintCalls        \* that handler's paintCell calls: [coord, painted], in order

vars == <<phase, cellData, detached, nextRegionId, fillStyle, currentTransform,
          shouldRender, mouseCellCoord, cursorMode, canvasHandlers,
          windowHandlers, pendingFrames, frame, lastEvent, paintCalls>>

-----------------------------------------------------------------------------
(* Program constants *)

directions == <<"north", "east", "south", "west">>

Dirs == {directions[i] : i \in 1..4}

CardinalBit(d) ==
    CASE d = "north" -> 8
      [] d = "east"  -> 4
      [] d = "south" -> 2
      [] d = "west"  -> 1

colors == [red |-> "indianred", blue |-> "#4b76ff"]

ColorTokens == {colors.red, colors.blue}

DEFAULT_GRID_SIZE == 300

gridOffset == DEFAULT_GRID_SIZE \div 2

cellSize == 20

testShapes == << <<10, 10, "indianred">>, <<10, 11, "indianred">>,
                 <<10, 12, "indianred">> >>

CursorModePan == "Pan"
CursorModePaint == "Paint"
CursorModeErase == "Erase"
CursorModeRest == "Rest"

-----------------------------------------------------------------------------
(* Bounds of the model *)

\* Paints that would take nextRegionId beyond this are not taken.
MaxRegionId == 3

-----------------------------------------------------------------------------
(* Numbers.  A JavaScript number is a binary floating-point value; here it *)
(* is [m, x], standing for m * 2^x with m odd (or m = 0, x = 0), and every *)
(* operation rounds its exact result to the nearest value of FloatBits     *)
(* significant bits, ties to even, as IEEE 754 does with 53.               *)

\* Significant bits of a number (53 in the program).
FloatBits == 8

RECURSIVE Pow2(_)
Pow2(k) == IF k <= 0 THEN 1 ELSE 2 * Pow2(k - 1)

RECURSIVE BitLen(_)
BitLen(n) == IF n = 0 THEN 0 ELSE 1 + BitLen(n \div 2)

Abs(n) == IF n < 0 THEN -n ELSE n

Sign(n) == IF n < 0 THEN -1 ELSE 1

RECURSIVE Norm(_, _)
Norm(m, x) ==
    IF m = 0 THEN [m |-> 0, x |-> 0]
    ELSE IF m % 2 = 0 THEN Norm(m \div 2, x + 1)
    ELSE [m |-> m, x |-> x]

\* m * 2^x rounded to FloatBits significant bits, ties to even
Round(m, x) ==
    LET k == BitLen(Abs(m)) - FloatBits
    IN IF k <= 0 THEN Norm(m, x)
       ELSE LET q == Abs(m) \div Pow2(k)
                r == Abs(m) % Pow2(k)
                half == Pow2(k - 1)
                up == r > half \/ (r = half /\ q % 2 = 1)
            IN Norm(Sign(m) * (IF up THEN q + 1 ELSE q), x + k)

FromInt(n) == Round(n, 0)

Neg(a) == [m |-> -a.m, x |-> a.x]

FMul(a, b) == Round(a.m * b.m, a.x + b.x)

\* When the exponents are this far apart the smaller operand is below a
\* quarter of the larger one's last place and the sum rounds to the larger.
FAdd(a, b) ==
    IF a.m = 0 THEN b
    ELSE IF b.m = 0 THEN a
    ELSE IF a.x - b.x > 2 * FloatBits THEN a
    ELSE IF b.x - a.x > 2 * FloatBits THEN b
    ELSE LET lo == IF a.x < b.x THEN a.x ELSE b.x
         IN Round(a.m * Pow2(a.x - lo) + b.m * Pow2(b.x - lo), lo)

FSub(a, b) == FAdd(a, Neg(b))

\* The quotient to FloatBits + 2 bits and a sticky bit for the remainder,
\* then rounded.
FDiv(a, b) ==
    IF a.m = 0 THEN a
    ELSE LET s == FloatBits + 2 + BitLen(Abs(b.m)) - BitLen(Abs(a.m))
             n == Abs(a.m) * Pow2(s)
             q == n \div Abs(b.m)
             sticky == IF n % Abs(b.m) = 0 THEN 0 ELSE 1
         IN Round(Sign(a.m) * Sign(b.m) * (2 * q + sticky), a.x - b.x - s - 1)

\* a < b, exactly
FLess(a, b) ==
    LET lo == IF a.x < b.x THEN a.x ELSE b.x
    IN a.m * Pow2(a.x - lo) < b.m * Pow2(b.x - lo)

FMax(a, b) == IF FLess(a, b) THEN b ELSE a

FMin(a, b) == IF FLess(b, a) THEN b ELSE a

\* Math.floor, as an integer
FFloor(a) == IF a.x >= 0 THEN a.m * Pow2(a.x) ELSE a.m \div Pow2(-a.x)

\* The literal 0.3
minScale == FDiv(FromInt(3), FromInt(10))

maxScale == FromInt(3)

-----------------------------------------------------------------------------
(* Bit operations on the 4-bit mask *)

BitOf(mask, bit) == (mask \div bit) % 2

setMaskBit(mask, bit) == IF BitOf(mask, bit) = 1 THEN mask ELSE mask + bit

\* unsetMaskBit as it would be with mask ^ bit in place of mask & ~bit
unsetMaskBitToggled(mask, bit) ==
    IF BitOf(mask, bit) = 1 THEN mask - bit ELSE mask + bit

unsetMaskBit(mask, bit) == IF BitOf(mask, bit) = 1 THEN mask - bit ELSE mask

\* (mask & bit) === bit
isBitSet(mask, bit) == BitOf(mask, bit) * bit = bit

RECURSIVE ToBinaryDigits(_)
\* Number.prototype.toString(2) of a non-negative integer, as a digit sequence
ToBinaryDigits(n) ==
    IF n < 2 THEN <<n>> ELSE Append(ToBinaryDigits(n \div 2), n % 2)

RECURSIVE ParseBinaryDigits(_)
\* parseInt(s, 2) of a digit sequence
ParseBinaryDigits(s) ==
    IF Len(s) = 0 THEN 0
    ELSE 2 * ParseBinaryDigits(SubSeq(s, 1, Len(s) - 1)) + s[Len(s)]

-----------------------------------------------------------------------------
(* The heap of cell objects *)

Ref(coord, gen) == <<coord[1], coord[2], gen>>

CoordOf(ref) == <<ref[1], ref[2]>>

\* cellData and the detached objects as one heap
HeapOf(cd, det) ==
    [r \in {Ref(c, 0) : c \in DOMAIN cd} \cup DOMAIN det |->
        IF r[3] = 0 THEN cd[CoordOf(r)] ELSE det[r]]

GridOf(H) == [c \in {CoordOf(r) : r \in {q \in DOMAIN H : q[3] = 0}} |-> H[Ref(c, 0)]]

Stored(H, coord) == Ref(coord, 0) \in DOMAIN H

Adjacent(coord, d) ==
    CASE d = "north" -> <<coord[1] - 1, coord[2]>>
      [] d = "east"  -> <<coord[1], coord[2] + 1>>
      [] d = "south" -> <<coord[1] + 1, coord[2]>>
      [] d = "west"  -> <<coord[1], coord[2] - 1>>

Opposite(d) ==
    CASE d = "north" -> "south"
      [] d = "east"  -> "west"
      [] d = "south" -> "north"
      [] d = "west"  -> "east"

\* The links: a function from the directions that have a neighbour to references.
getCellNeighbors(H, coord) ==
    [d \in {x \in Dirs : Stored(H, Adjacent(coord, x))} |-> Ref(Adjacent(coord, d), 0)]

cellsAreSameType(cellA, cellB) == cellA.fillStyle = cellB.fillStyle

IsLike(H, fs, neighbors, d) == d \in DOMAIN neighbors /\ H[neighbors[d]].fillStyle = fs

\* makeAdjacencyMask as it would be with the East and West bits exchanged
makeAdjacencyMaskMirrored(H, fs, neighbors) ==
    LET m1 == IF IsLike(H, fs, neighbors, "north") THEN setMaskBit(0, CardinalBit("north")) ELSE 0
        m2 == IF IsLike(H, fs, neighbors, "east") THEN setMaskBit(m1, CardinalBit("west")) ELSE m1
        m3 == IF IsLike(H, fs, neighbors, "south") THEN setMaskBit(m2, CardinalBit("south")) ELSE m2
        m4 == IF IsLike(H, fs, neighbors, "west") THEN setMaskBit(m3, CardinalBit("east")) ELSE m3
    IN m4

makeAdjacencyMask(H, fs, neighbors) ==
    LET m1 == IF IsLike(H, fs, neighbors, "north") THEN setMaskBit(0, CardinalBit("north")) ELSE 0
        m2 == IF IsLike(H, fs, neighbors, "east") THEN setMaskBit(m1, CardinalBit("east")) ELSE m1
        m3 == IF IsLike(H, fs, neighbors, "south") THEN setMaskBit(m2, CardinalBit("south")) ELSE m2
        m4 == IF IsLike(H, fs, neighbors, "west") THEN setMaskBit(m3, CardinalBit("west")) ELSE m3
    IN m4

RECURSIVE LikeRegionIds(_, _, _, _)
LikeRegionIds(H, fs, neighbors, i) ==
    IF i > 4 THEN <<>>
    ELSE LET rest == LikeRegionIds(H, fs, neighbors, i + 1)
             d == directions[i]
         IN IF IsLike(H, fs, neighbors, d)
            THEN LET id == H[neighbors[d]].regionId
                 IN <<id>> \o SelectSeq(rest, LAMBDA x : x # id)
            ELSE rest

\* getAdjacentLikeRegionIds as it would be without the comparison of colours
getAdjacentRegionIdsAnyColour(H, fs, neighbors) ==
    LET ids == [i \in 1..4 |-> IF directions[i] \in DOMAIN neighbors
                                THEN <<H[neighbors[directions[i]]].regionId>>
                                ELSE <<>>]
        all == ids[1] \o ids[2] \o ids[3] \o ids[4]
    IN IF Len(all) = 0 THEN <<>> ELSE <<all[1]>>

\* [...new Set(region ids of the like neighbours)], in insertion order
getAdjacentLikeRegionIds(H, fs, neighbors) == LikeRegionIds(H, fs, neighbors, 1)

\* InformOne as it would be without the colour comparison: the bit facing the
\* cell is set for every neighbour.
InformOneAlwaysSet(H, fs, cellRef, d, n) ==
    LET bit == CardinalBit(Opposite(d))
        links == [x \in DOMAIN H[n].neighbors \cup {Opposite(d)} |->
                     IF x = Opposite(d) THEN cellRef ELSE H[n].neighbors[x]]
    IN [H EXCEPT ![n] = [@ EXCEPT !.adjacency = setMaskBit(H[n].adjacency, bit),
                                  !.neighbors = links]]

\* InformOne as it would be without the assignment of the back link
InformOneKeepsLink(H, fs, cellRef, d, n) ==
    LET bit == CardinalBit(Opposite(d))
        nextMask == IF H[n].fillStyle = fs
                    THEN setMaskBit(H[n].adjacency, bit)
                    ELSE unsetMaskBit(H[n].adjacency, bit)
    IN [H EXCEPT ![n] = [@ EXCEPT !.adjacency = nextMask]]

\* One neighbour's share of informAdjacentNeighbors: its bit facing the cell
\* and its link back to the cell.
InformOne(H, fs, cellRef, d, n) ==
    LET bit == CardinalBit(Opposite(d))
        nextMask == IF H[n].fillStyle = fs
                    THEN setMaskBit(H[n].adjacency, bit)
                    ELSE unsetMaskBit(H[n].adjacency, bit)
        links == [x \in DOMAIN H[n].neighbors \cup {Opposite(d)} |->
                     IF x = Opposite(d) THEN cellRef ELSE H[n].neighbors[x]]
    IN [H EXCEPT ![n] = [@ EXCEPT !.adjacency = nextMask, !.neighbors = links]]

RECURSIVE InformFrom(_, _, _, _, _)
InformFrom(H, fs, cellRef, nbs, i) ==
    IF i > 4 THEN H
    ELSE LET d == directions[i]
         IN IF d \in DOMAIN nbs
            THEN InformFrom(InformOne(H, fs, cellRef, d, nbs[d]), fs, cellRef, nbs, i + 1)
            ELSE InformFrom(H, fs, cellRef, nbs, i + 1)

\* const { north, east, south, west } = cell.neighbors is read once, up front.
informAdjacentNeighbors(H, fs, cellRef) ==
    InformFrom(H, fs, cellRef, H[cellRef].neighbors, 1)

\* The least generation >= 1 not in use at a coordinate.
FreeGen(H, coord) ==
    CHOOSE g \in 1..(Cardinality(DOMAIN H) + 1) :
        /\ Ref(coord, g) \notin DOMAIN H
        /\ \A h \in 1..(g - 1) : Ref(coord, h) \in DOMAIN H

\* this.cellData[row][col] = cell: the object that was stored there (if any)
\* leaves the grid but keeps its identity, and the links that refer to it
\* keep referring to it.
StoreCell(H, coord, cell) ==
    LET old == Ref(coord, 0)
        moved == Ref(coord, FreeGen(H, coord))
        Redirect(links) == [x \in DOMAIN links |-> IF links[x] = old THEN moved ELSE links[x]]
        keys == IF Stored(H, coord) THEN DOMAIN H \cup {moved} ELSE DOMAIN H \cup {old}
    IN [r \in keys |->
          IF r = old THEN cell
          ELSE LET o == IF r = moved THEN H[old] ELSE H[r]
               IN IF Stored(H, coord) THEN [o EXCEPT !.neighbors = Redirect(@)] ELSE o]

setCell(H, fs, coord, cell) ==
    informAdjacentNeighbors(StoreCell(H, coord, cell), fs, Ref(coord, 0))

\* updateCell's argument is used as a coordinate: the object assigned to is
\* the one the grid holds there.
updateCell(H, fs, coord, regionId) ==
    IF ~Stored(H, coord) THEN H
    ELSE informAdjacentNeighbors([H EXCEPT ![Ref(coord, 0)].regionId = regionId],
                                 fs, Ref(coord, 0))

-----------------------------------------------------------------------------
(* Region tracker *)

CellId(ref) == CoordOf(ref)

\* VisitCell as it would be without conditionFn: every visited cell is updated
VisitCellAnyColour(H, fs, visited, ref, startRef) ==
    IF CellId(ref) \in visited
    THEN [heap |-> H, visited |-> visited, entered |-> FALSE]
    ELSE [heap |-> updateCell(H, fs, CoordOf(ref), H[startRef].regionId),
          visited |-> visited \cup {CellId(ref)},
          entered |-> TRUE]

\* VisitCell as it would be if the start cell were never taken as visited
VisitCellReentersStart(H, fs, visited, ref, startRef) ==
    IF CellId(ref) \in visited /\ ref # startRef
    THEN [heap |-> H, visited |-> visited, entered |-> FALSE]
    ELSE [heap |-> IF H[ref].fillStyle = H[startRef].fillStyle
                   THEN updateCell(H, fs, CoordOf(ref), H[startRef].regionId)
                   ELSE H,
          visited |-> visited \cup {CellId(ref)},
          entered |-> TRUE]

\* visitCell up to its loop over the directions: the visited check and the
\* conditional update.  Gives the heap, the visited ids and whether the loop
\* over the cell's neighbours is to run.
VisitCell(H, fs, visited, ref, startRef) ==
    IF CellId(ref) \in visited
    THEN [heap |-> H, visited |-> visited, entered |-> FALSE]
    ELSE [heap |-> IF H[ref].fillStyle = H[startRef].fillStyle
                   THEN updateCell(H, fs, CoordOf(ref), H[startRef].regionId)
                   ELSE H,
          visited |-> visited \cup {CellId(ref)},
          entered |-> TRUE]

RECURSIVE FloodLoop(_, _, _, _, _)
\* The recursion of visitCell with its call stack made explicit: a frame is
\* <<cell, index of the next direction>>; currentCell.neighbors[dir] is read
\* when the loop reaches dir.
FloodLoop(H, fs, visited, stack, startRef) ==
    IF Len(stack) = 0 THEN H
    ELSE LET top == stack[Len(stack)]
             ref == top[1]
             i == top[2]
             below == SubSeq(stack, 1, Len(stack) - 1)
         IN IF i > 4 THEN FloodLoop(H, fs, visited, below, startRef)
            ELSE LET d == directions[i]
                     advanced == Append(below, <<ref, i + 1>>)
                 IN IF d \notin DOMAIN H[ref].neighbors
                    THEN FloodLoop(H, fs, visited, advanced, startRef)
                    ELSE LET v == VisitCell(H, fs, visited, H[ref].neighbors[d], startRef)
                         IN FloodLoop(v.heap, fs, v.visited,
                                      IF v.entered
                                      THEN Append(advanced, <<H[ref].neighbors[d], 1>>)
                                      ELSE advanced,
                                      startRef)

RECURSIVE FloodTrace(_, _, _, _, _, _)
\* FloodLoop with the calls of visitCell that got past the visited check
\* recorded in order: entered is the sequence of the cells they were made on.
FloodTrace(H, fs, visited, stack, startRef, entered) ==
    IF Len(stack) = 0 THEN [heap |-> H, entered |-> entered]
    ELSE LET top == stack[Len(stack)]
             ref == top[1]
             i == top[2]
             below == SubSeq(stack, 1, Len(stack) - 1)
         IN IF i > 4 THEN FloodTrace(H, fs, visited, below, startRef, entered)
            ELSE LET d == directions[i]
                     advanced == Append(below, <<ref, i + 1>>)
                 IN IF d \notin DOMAIN H[ref].neighbors
                    THEN FloodTrace(H, fs, visited, advanced, startRef, entered)
                    ELSE LET n == H[ref].neighbors[d]
                             v == VisitCell(H, fs, visited, n, startRef)
                         IN IF v.entered
                            THEN FloodTrace(v.heap, fs, v.visited,
                                            Append(advanced, <<n, 1>>), startRef,
                                            Append(entered, n))
                            ELSE FloodTrace(v.heap, fs, v.visited, advanced, startRef,
                                            entered)

\* The walk floodFill makes from startCell: the resulting heap and the cells
\* visitCell entered, the start cell first.
floodWalk(H, fs, startRef) ==
    LET v == VisitCell(H, fs, {}, startRef, startRef)
    IN FloodTrace(v.heap, fs, v.visited, << <<startRef, 1>> >>, startRef, <<startRef>>)

\* floodFill as it would be without the recursion into the neighbours
floodFillStartOnly(H, fs, startRef) ==
    VisitCell(H, fs, {}, startRef, startRef).heap

floodFill(H, fs, startRef) ==
    LET v == VisitCell(H, fs, {}, startRef, startRef)
    IN FloodLoop(v.heap, fs, v.visited, << <<startRef, 1>> >>, startRef)

\* setIdForRegion as it would be without the flood fill
setIdForRegionSkipped(H, fs, startRef) == H

setIdForRegion(H, fs, startRef) == floodFill(H, fs, startRef)

-----------------------------------------------------------------------------
(* Paint controller *)

\* shouldPaintCell as it would be without the comparison of colours
shouldPaintCellAlways(H, fs, coord) == TRUE

shouldPaintCell(H, fs, coord) ==
    ~Stored(H, coord) \/ H[Ref(coord, 0)].fillStyle # fs

RECURSIVE Reachable(_, _)
\* The objects reachable along the links from a set of objects.
Reachable(H, from) ==
    LET next == from \cup UNION {{H[r].neighbors[d] : d \in DOMAIN H[r].neighbors} : r \in from}
    IN IF next = from THEN from ELSE Reachable(H, next)

\* Objects no longer reachable from the grid cannot be observed again.
Collect(H) ==
    LET live == Reachable(H, {r \in DOMAIN H : r[3] = 0})
    IN [r \in live |-> H[r]]

paintCell(H, fs, nrid, coord) ==
    IF ~shouldPaintCell(H, fs, coord)
    THEN [heap |-> H, nextRegionId |-> nrid, painted |-> FALSE]
    ELSE LET neighbors == getCellNeighbors(H, coord)
             adjacentLikeRegionIds == getAdjacentLikeRegionIds(H, fs, neighbors)
             fresh == Len(adjacentLikeRegionIds) = 0
             regionId == IF fresh THEN nrid ELSE adjacentLikeRegionIds[1]
             mask == makeAdjacencyMask(H, fs, neighbors)
             cell == [row |-> coord[1], col |-> coord[2], neighbors |-> neighbors,
                      fillStyle |-> fs,
                      adjacency |-> ParseBinaryDigits(ToBinaryDigits(mask)),
                      regionId |-> regionId]
             H1 == setCell(H, fs, coord, cell)
             H2 == setIdForRegion(H1, fs, Ref(coord, 0))
         IN [heap |-> Collect(H2),
             nextRegionId |-> IF fresh THEN nrid + 1 ELSE nrid,
             painted |-> TRUE]

\* paintCell from getCellNeighbors to setCell: the heap H1 that paintCell
\* hands to setIdForRegion.
paintCellStored(H, fs, nrid, coord) ==
    LET neighbors == getCellNeighbors(H, coord)
        adjacentLikeRegionIds == getAdjacentLikeRegionIds(H, fs, neighbors)
        regionId == IF Len(adjacentLikeRegionIds) = 0 THEN nrid
                    ELSE adjacentLikeRegionIds[1]
        mask == makeAdjacencyMask(H, fs, neighbors)
        cell == [row |-> coord[1], col |-> coord[2], neighbors |-> neighbors,
                 fillStyle |-> fs,
                 adjacency |-> ParseBinaryDigits(ToBinaryDigits(mask)),
                 regionId |-> regionId]
    IN setCell(H, fs, coord, cell)

RECURSIVE PaintEach(_, _, _, _, _)
\* paintCell on each coordinate of a sequence, in order.  flags[i] tells
\* whether call i got past shouldPaintCell, painted whether any did.
PaintEach(H, fs, nrid, coords, i) ==
    IF i > Len(coords)
    THEN [heap |-> H, nextRegionId |-> nrid, painted |-> FALSE, flags |-> <<>>]
    ELSE LET p == paintCell(H, fs, nrid, coords[i])
             rest == PaintEach(p.heap, fs, p.nextRegionId, coords, i + 1)
         IN [rest EXCEPT !.painted = p.painted \/ rest.painted,
                         !.flags = <<p.painted>> \o rest.flags]

RECURSIVE PaintShapes(_, _, _, _, _)
\* paintTestShapes: each shape sets the active colour and is painted.
PaintShapes(H, fs, nrid, shapes, i) ==
    IF i > Len(shapes) THEN [heap |-> H, nextRegionId |-> nrid, fillStyle |-> fs]
    ELSE LET p == paintCell(H, shapes[i][3], nrid,
                            <<gridOffset + shapes[i][1], gridOffset + shapes[i][2]>>)
         IN PaintShapes(p.heap, shapes[i][3], p.nextRegionId, shapes, i + 1)

DetachedOf(H) == [r \in {q \in DOMAIN H : q[3] # 0} |-> H[r]]

-----------------------------------------------------------------------------
(* Transform and coordinate conversions *)

Identity == [a |-> FromInt(1), e |-> FromInt(0), f |-> FromInt(0)]

\* canvas.getBoundingClientRect(): the surface sits at the viewport's origin
clientRect == [x |-> FromInt(0), y |-> FromInt(0)]

panX(T) == T.e

panY(T) == T.f

currentScale(T) == T.a

canvasToWorld(T, canvasCoord) ==
    [x |-> FDiv(FSub(canvasCoord.x, panX(T)), currentScale(T)),
     y |-> FDiv(FSub(canvasCoord.y, panY(T)), currentScale(T))]

viewportToWorld(T, viewportCoord) ==
    canvasToWorld(T, [x |-> FSub(viewportCoord.x, clientRect.x),
                      y |-> FSub(viewportCoord.y, clientRect.y)])

worldCoordToCellCoord(coord) ==
    <<FFloor(FDiv(coord.y, FromInt(cellSize))) + gridOffset,
      FFloor(FDiv(coord.x, FromInt(cellSize))) + gridOffset>>

cellCoordToWorldCoord(cell) ==
    [x |-> (cell[2] - gridOffset) * cellSize, y |-> (cell[1] - gridOffset) * cellSize]

\* An event's clientX, clientY (integers) as numbers
ClientPoint(p) == [x |-> FromInt(p.x), y |-> FromInt(p.y)]

eventToCellCoord(T, p) == worldCoordToCellCoord(viewportToWorld(T, ClientPoint(p)))

\* cellA?.row === cellB?.row && cellA?.col === cellB?.col, undefined being <<>>
isSameCell(cellA, cellB) == cellA = cellB

\* context.translate(tx, ty) on a matrix with b = c = 0
Translate(T, tx, ty) ==
    [T EXCEPT !.e = FAdd(T.e, FMul(T.a, tx)), !.f = FAdd(T.f, FMul(T.a, ty))]

\* context.scale(s, s)
Scale(T, s) == [T EXCEPT !.a = FMul(T.a, s)]

\* handlePan as it would be without the division by the scale
handlePanUndivided(T, movementX, movementY) ==
    Translate(T, FromInt(movementX), FromInt(movementY))

handlePan(T, movementX, movementY) ==
    Translate(T, FDiv(FromInt(movementX), currentScale(T)),
                 FDiv(FromInt(movementY), currentScale(T)))

handleWheel(T, p, deltaY) ==
    LET worldOrigin == viewportToWorld(T, ClientPoint(p))
        unclampedScaleDelta == FDiv(FMul(FromInt(-1), FromInt(deltaY)), FromInt(320))
        nextScale == FMax(minScale,
                          FMin(FAdd(currentScale(T), unclampedScaleDelta), maxScale))
        scaleFactor == FDiv(nextScale, currentScale(T))
        T1 == Translate(T, worldOrigin.x, worldOrigin.y)
        T2 == Scale(T1, scaleFactor)
    IN Translate(T2, Neg(worldOrigin.x), Neg(worldOrigin.y))

-----------------------------------------------------------------------------
(* Render loop *)

\* Array.prototype.forEach visits the array indices, which are not negative.
Iterated(cd) == {c \in DOMAIN cd : c[1] >= 0 /\ c[2] >= 0}

\* renderCellBorders as it would be with the test of the bit inverted
renderCellBordersInverted(cd) ==
    {cs \in Iterated(cd) \X Dirs :
        /\ cd[cs[1]].adjacency # 15
        /\ isBitSet(cd[cs[1]].adjacency, CardinalBit(cs[2]))}

\* The sides renderCellBorders strokes, as <<cell, side>>
renderCellBorders(cd) ==
    {cs \in Iterated(cd) \X Dirs :
        /\ cd[cs[1]].adjacency # 15
        /\ ~isBitSet(cd[cs[1]].adjacency, CardinalBit(cs[2]))}

renderCells(cd) == [c \in Iterated(cd) |-> cd[c].fillStyle]

\* Redraw as it would be without renderHoverCell
RedrawWithoutHover(cd, T, hover) ==
    [drawn |-> TRUE, transform |-> T, cells |-> renderCells(cd),
     borders |-> renderCellBorders(cd), hover |-> <<>>]

\* What one redraw puts on the surface.
Redraw(cd, T, hover) ==
    [drawn |-> TRUE, transform |-> T, cells |-> renderCells(cd),
     borders |-> renderCellBorders(cd), hover |-> hover]

Blank == [drawn |-> FALSE]

-----------------------------------------------------------------------------
(* State machine *)

undefined == <<>>

AllCanvasEvents == {"wheel", "pointerdown", "pointerup", "pointermove", "pointerleave"}

\* DragEvents as it would be if only pointermove were handed over
DragEventsMoveOnly == {"pointermove"}

DragEvents == {"pointermove", "pointerup"}

Heap == HeapOf(cellData, detached)

Init ==
    /\ phase = "new"
    /\ cellData = <<>>
    /\ detached = <<>>
    /\ nextRegionId = 0
    /\ fillStyle = colors.red
    /\ currentTransform = Identity
    /\ shouldRender = TRUE
    /\ mouseCellCoord = undefined
    /\ cursorMode = CursorModeRest
    /\ canvasHandlers = {}
    /\ windowHandlers = {}
    /\ pendingFrames = 0
    /\ frame = Blank
    /\ lastEvent = [type |-> "none"]
    /\ paintCalls = <<>>

\* The effect of a run of paintCell calls on the coordinates of a sequence.
\* The model follows the grid inside the window W and region ids up to
\* MaxRegionId.
Paints(W, coords, dirty) ==
    LET r == PaintEach(Heap, fillStyle, nextRegionId, coords, 1)
    IN /\ \A i \in 1..Len(coords) : coords[i] \in W
       /\ r.nextRegionId <= MaxRegionId
       /\ cellData' = GridOf(r.heap)
       /\ detached' = DetachedOf(r.heap)
       /\ nextRegionId' = r.nextRegionId
       /\ shouldRender' = (dirty \/ r.painted)
       /\ paintCalls' = [i \in 1..Len(coords) |->
                           [coord |-> coords[i], painted |-> r.flags[i]]]

NoPaints ==
    /\ UNCHANGED <<cellData, detached, nextRegionId>>
    /\ paintCalls' = <<>>

\* CanInitialize as it would be without the test of the 2D context
CanInitializeAnyContext(canvasPresent, contextOk) == canvasPresent

\* Neither throw of the constructor is taken: canvasRef.current is not null
\* and getContext("2d") is not null.
CanInitialize(canvasPresent, contextOk) == canvasPresent /\ contextOk

\* new Canvas(canvasRef)
Construct(canvasPresent, contextOk) ==
    /\ phase = "new"
    /\ lastEvent' = [type |-> "construct", ok |-> canvasPresent /\ contextOk,
                     canvas |-> canvasPresent, context |-> contextOk]
    /\ IF CanInitialize(canvasPresent, contextOk)
       THEN LET r == PaintShapes(Heap, fillStyle, nextRegionId, testShapes, 1)
            IN /\ phase' = "ready"
               /\ canvasHandlers' = AllCanvasEvents
               /\ pendingFrames' = pendingFrames + 1
               /\ cellData' = GridOf(r.heap)
               /\ detached' = DetachedOf(r.heap)
               /\ nextRegionId' = r.nextRegionId
               /\ fillStyle' = r.fillStyle
               /\ shouldRender' = TRUE
               /\ paintCalls' = [i \in 1..Len(testShapes) |->
                                   [coord |-> <<gridOffset + testShapes[i][1],
                                                gridOffset + testShapes[i][2]>>,
                                    painted |-> TRUE]]
               /\ UNCHANGED <<currentTransform, mouseCellCoord, cursorMode,
                              windowHandlers, frame>>
       ELSE /\ phase' = "failed"
            /\ NoPaints
            /\ UNCHANGED <<fillStyle, currentTransform, shouldRender, mouseCellCoord,
                           cursorMode, canvasHandlers, windowHandlers, pendingFrames,
                           frame>>

\* FrameTick as it would be without the call of render() in the callback
FrameTickOnce ==
    /\ pendingFrames > 0
    /\ lastEvent' = [type |-> "frame"]
    /\ IF shouldRender
       THEN /\ frame' = [drawn |-> TRUE, transform |-> currentTransform,
                         cells |-> renderCells(cellData),
                         borders |-> renderCellBorders(cellData),
                         hover |-> mouseCellCoord]
            /\ shouldRender' = FALSE
       ELSE UNCHANGED <<frame, shouldRender>>
    /\ pendingFrames' = pendingFrames - 1
    /\ cellData' = cellData /\ detached' = detached /\ nextRegionId' = nextRegionId
    /\ paintCalls' = <<>>
    /\ UNCHANGED <<phase, fillStyle, currentTransform, mouseCellCoord, cursorMode,
                   canvasHandlers, windowHandlers>>

\* The animation-frame callback of render()
FrameTick ==
    /\ pendingFrames > 0
    /\ lastEvent' = [type |-> "frame"]
    /\ IF shouldRender
       THEN /\ frame' = Redraw(cellData, currentTransform, mouseCellCoord)
            /\ shouldRender' = FALSE
       ELSE UNCHANGED <<frame, shouldRender>>
    /\ pendingFrames' = (pendingFrames - 1) + 1
    /\ NoPaints
    /\ UNCHANGED <<phase, fillStyle, currentTransform, mouseCellCoord, cursorMode,
                   canvasHandlers, windowHandlers>>

\* The colour picker's onSelectColor
setFillStyle(color) ==
    /\ phase = "ready"
    /\ lastEvent' = [type |-> "setFillStyle", color |-> color]
    /\ fillStyle' = color
    /\ NoPaints
    /\ UNCHANGED <<phase, currentTransform, shouldRender, mouseCellCoord, cursorMode,
                   canvasHandlers, windowHandlers, pendingFrames, frame>>

handlePointerDown(W, button, p) ==
    /\ "pointerdown" \in canvasHandlers
    /\ lastEvent' = [type |-> "pointerdown", button |-> button, point |-> p]
    \* transferMouseToWindow
    /\ canvasHandlers' = canvasHandlers \ DragEvents
    /\ windowHandlers' = windowHandlers \cup DragEvents
    /\ CASE button = 0 ->
                /\ cursorMode' = CursorModePaint
                /\ Paints(W, <<eventToCellCoord(currentTransform, p)>>, shouldRender)
         [] button = 1 ->
                /\ cursorMode' = CursorModePan
                /\ NoPaints
                /\ UNCHANGED shouldRender
         [] OTHER ->
                /\ NoPaints
                /\ UNCHANGED <<cursorMode, shouldRender>>
    /\ UNCHANGED <<phase, fillStyle, currentTransform, mouseCellCoord, pendingFrames,
                   frame>>

\* CoalescedCells as it would be if only the last sub-event were painted
CoalescedCellsLastOnly(T, coalesced) ==
    IF Len(coalesced) = 0 THEN <<>>
    ELSE <<eventToCellCoord(T, coalesced[Len(coalesced)])>>

\* for (let ev of event.getCoalescedEvents()): the cell under each sub-event,
\* in the order of the list
CoalescedCells(T, coalesced) ==
    [i \in 1..Len(coalesced) |-> eventToCellCoord(T, coalesced[i])]

\* handlePointerMove as it would be if the sub-events were painted in every
\* mode but Pan
handlePointerMoveAlwaysPaints(W, p, movement, coalesced) ==
    /\ "pointermove" \in canvasHandlers \cup windowHandlers
    /\ lastEvent' = [type |-> "pointermove", point |-> p, movement |-> movement,
                     coalesced |-> coalesced]
    /\ LET cellCoord == eventToCellCoord(currentTransform, p)
           hoverDirty == shouldRender \/ ~isSameCell(cellCoord, mouseCellCoord)
       IN /\ mouseCellCoord' = cellCoord
          /\ IF cursorMode = CursorModePan
             THEN /\ currentTransform' =
                         handlePan(currentTransform, movement[1], movement[2])
                  /\ shouldRender' = TRUE
                  /\ cellData' = cellData /\ detached' = detached
                  /\ nextRegionId' = nextRegionId
                  /\ paintCalls' = <<>>
             ELSE /\ Paints(W, CoalescedCells(currentTransform, coalesced), hoverDirty)
                  /\ UNCHANGED currentTransform
    /\ UNCHANGED <<phase, fillStyle, cursorMode, canvasHandlers, windowHandlers,
                   pendingFrames, frame>>

\* A pointermove reaches handlePointerMove through the canvas listener or,
\* during a drag, through the window listener.
handlePointerMove(W, p, movement, coalesced) ==
    /\ "pointermove" \in canvasHandlers \cup windowHandlers
    /\ lastEvent' = [type |-> "pointermove", point |-> p, movement |-> movement,
                     coalesced |-> coalesced]
    /\ LET cellCoord == eventToCellCoord(currentTransform, p)
           hoverDirty == shouldRender \/ ~isSameCell(cellCoord, mouseCellCoord)
       IN /\ mouseCellCoord' = cellCoord
          /\ CASE cursorMode = CursorModePan ->
                      /\ currentTransform' =
                             handlePan(currentTransform, movement[1], movement[2])
                      /\ shouldRender' = TRUE
                      /\ NoPaints
               [] cursorMode = CursorModePaint ->
                      /\ Paints(W, CoalescedCells(currentTransform, coalesced),
                                hoverDirty)
                      /\ UNCHANGED currentTransform
               [] OTHER ->
                      /\ shouldRender' = hoverDirty
                      /\ NoPaints
                      /\ UNCHANGED currentTransform
    /\ UNCHANGED <<phase, fillStyle, cursorMode, canvasHandlers, windowHandlers,
                   pendingFrames, frame>>

\* handlePointerUp as it would be without the assignment to cursorMode
handlePointerUpKeepsMode ==
    /\ "pointerup" \in canvasHandlers \cup windowHandlers
    /\ lastEvent' = [type |-> "pointerup"]
    /\ UNCHANGED cursorMode
    /\ IF "pointerup" \in windowHandlers
       THEN /\ windowHandlers' = windowHandlers \ {"pointermove", "pointerup"}
            /\ canvasHandlers' = canvasHandlers \cup {"pointermove", "pointerup"}
       ELSE UNCHANGED <<canvasHandlers, windowHandlers>>
    /\ cellData' = cellData /\ detached' = detached /\ nextRegionId' = nextRegionId
    /\ paintCalls' = <<>>
    /\ UNCHANGED <<phase, fillStyle, currentTransform, shouldRender, mouseCellCoord,
                   pendingFrames, frame>>

\* A pointerup reaches handlePointerUp through the canvas listener or, during
\* a drag, through transferMouseToCanvas on window.
handlePointerUp ==
    /\ "pointerup" \in canvasHandlers \cup windowHandlers
    /\ lastEvent' = [type |-> "pointerup"]
    /\ cursorMode' = CursorModeRest
    /\ IF "pointerup" \in windowHandlers
       THEN /\ windowHandlers' = windowHandlers \ DragEvents
            /\ canvasHandlers' = canvasHandlers \cup DragEvents
       ELSE UNCHANGED <<canvasHandlers, windowHandlers>>
    /\ NoPaints
    /\ UNCHANGED <<phase, fillStyle, currentTransform, shouldRender, mouseCellCoord,
                   pendingFrames, frame>>

\* handlePointerLeave as it would be without the assignment to shouldRender
handlePointerLeaveClean ==
    /\ "pointerleave" \in canvasHandlers
    /\ lastEvent' = [type |-> "pointerleave"]
    /\ mouseCellCoord' = <<>>
    /\ cellData' = cellData /\ detached' = detached /\ nextRegionId' = nextRegionId
    /\ paintCalls' = <<>>
    /\ UNCHANGED <<phase, fillStyle, currentTransform, shouldRender, cursorMode,
                   canvasHandlers, windowHandlers, pendingFrames, frame>>

\* handlePointerLeave as it would be if leaving the canvas ended the drag
handlePointerLeaveEndsDrag ==
    /\ "pointerleave" \in canvasHandlers
    /\ lastEvent' = [type |-> "pointerleave"]
    /\ mouseCellCoord' = <<>>
    /\ shouldRender' = TRUE
    /\ cursorMode' = CursorModeRest
    /\ cellData' = cellData /\ detached' = detached /\ nextRegionId' = nextRegionId
    /\ paintCalls' = <<>>
    /\ UNCHANGED <<phase, fillStyle, currentTransform, canvasHandlers,
                   windowHandlers, pendingFrames, frame>>

handlePointerLeave ==
    /\ "pointerleave" \in canvasHandlers
    /\ lastEvent' = [type |-> "pointerleave"]
    /\ mouseCellCoord' = undefined
    /\ shouldRender' = TRUE
    /\ NoPaints
    /\ UNCHANGED <<phase, fillStyle, currentTransform, cursorMode, canvasHandlers,
                   windowHandlers, pendingFrames, frame>>

Wheel(p, deltaY) ==
    /\ "wheel" \in canvasHandlers
    /\ lastEvent' = [type |-> "wheel", point |-> p, deltaY |-> deltaY]
    /\ currentTransform' = handleWheel(currentTransform, p, deltaY)
    /\ shouldRender' = TRUE
    /\ NoPaints
    /\ UNCHANGED <<phase, fillStyle, mouseCellCoord, cursorMode, canvasHandlers,
                   windowHandlers, pendingFrames, frame>>

-----------------------------------------------------------------------------
(* Inputs *)

\* The client point at the middle of a cell under the identity transform
PointOf(coord) ==
    [x |-> (coord[2] - gridOffset) * cellSize + cellSize \div 2,
     y |-> (coord[1] - gridOffset) * cellSize + cellSize \div 2]

TestRow == {<<gridOffset + testShapes[i][1], gridOffset + testShapes[i][2]>> :
               i \in 1..Len(testShapes)}

\* The test row, the three cells above it and the cell above those: it holds
\* the cross centred above the middle of the test row.
GridWindow ==
    TestRow \cup {<<c[1] - 1, c[2]>> : c \in TestRow}
            \cup {<<gridOffset + 8, gridOffset + 11>>}

CrossCentre == <<gridOffset + 9, gridOffset + 11>>

\* The cross: its centre and the centre's four neighbours.  The two ends of
\* the test row are in the window and are not clicked.
Cross == {CrossCentre} \cup {Adjacent(CrossCentre, d) : d \in Dirs}

CrossPoints == {PointOf(c) : c \in Cross}

NoMovement == <<0, 0>>

\* Painting by clicks: the constructor, the colour picker, primary-button
\* pointer-downs on the cross and pointer-ups.  Every sequence of paintCell
\* calls on the cross, in every sequence of active colours, is a behaviour.
Next ==
    \/ \E cp, ok \in BOOLEAN : Construct(cp, ok)
    \/ \E c \in ColorTokens : setFillStyle(c)
    \/ \E p \in CrossPoints : handlePointerDown(GridWindow, 0, p)
    \/ handlePointerUp

Spec == Init /\ [][Next]_vars

\* Painting and redrawing: clicks on the cross in the initial colour, and
\* frame ticks.
NextFrame ==
    \/ Construct(TRUE, TRUE)
    \/ \E p \in CrossPoints : handlePointerDown(GridWindow, 0, p)
    \/ FrameTick

SpecFrame == Init /\ [][NextFrame]_vars

\* Painting by clicks alone: the constructor, the colour picker and
\* primary-button pointer-downs on the cross, repaints in the other colour
\* included.
NextPaint ==
    \/ Construct(TRUE, TRUE)
    \/ \E c \in ColorTokens : setFillStyle(c)
    \/ \E p \in CrossPoints : handlePointerDown(GridWindow, 0, p)

SpecPaint == Init /\ [][NextPaint]_vars

\* A click that does not give a stored cell another colour
KeepsColour(p) ==
    LET coord == eventToCellCoord(currentTransform, p)
    IN coord \in DOMAIN cellData => cellData[coord].fillStyle = fillStyle

\* Painting without recolouring: the clicks of Next that land on an empty
\* cell or on a cell of the active colour.
NextFresh ==
    \/ Construct(TRUE, TRUE)
    \/ \E c \in ColorTokens : setFillStyle(c)
    \/ \E p \in CrossPoints : KeepsColour(p) /\ handlePointerDown(GridWindow, 0, p)
    \/ handlePointerUp

SpecFresh == Init /\ [][NextFresh]_vars

\* Longest list of coalesced sub-events of one pointermove
MaxCoalesced == 2

\* Two cells of one column: the first test cell and the cell above it
DragWindow == {<<gridOffset + 10, gridOffset + 10>>, <<gridOffset + 9, gridOffset + 10>>}

DragPoints == {PointOf(c) : c \in DragWindow}

CoalescedLists == UNION {[1..n -> DragPoints] : n \in 0..MaxCoalesced}

\* Painting by dragging: pointer-downs, pointermoves that carry coalesced
\* sub-events, pointer-ups, in both colours.
NextDrag ==
    \/ Construct(TRUE, TRUE)
    \/ \E c \in ColorTokens : setFillStyle(c)
    \/ \E p \in DragPoints : handlePointerDown(DragWindow, 0, p)
    \/ \E p \in DragPoints, co \in CoalescedLists :
           handlePointerMove(DragWindow, p, NoMovement, co)
    \/ handlePointerUp

SpecDrag == Init /\ [][NextDrag]_vars

Buttons == {0, 1, 2}

\* The pointer state machine: construction with and without a surface and a
\* context, pointer-downs of the three buttons, pointermoves with at most one
\* sub-event, pointer-ups and pointer-leaves, in both colours.
NextPointer ==
    \/ \E cp, ok \in BOOLEAN : Construct(cp, ok)
    \/ \E c \in ColorTokens : setFillStyle(c)
    \/ \E b \in Buttons, p \in DragPoints : handlePointerDown(DragWindow, b, p)
    \/ \E p \in DragPoints : \E co \in {<<>>, <<p>>} :
           handlePointerMove(DragWindow, p, NoMovement, co)
    \/ handlePointerUp
    \/ handlePointerLeave

SpecPointer == Init /\ [][NextPointer]_vars

\* Pans are followed while the pan offset stays within this many pixels.
PanRange == 24

InPanRange(T) ==
    /\ ~FLess(FromInt(PanRange), T.e) /\ ~FLess(T.e, FromInt(-PanRange))
    /\ ~FLess(FromInt(PanRange), T.f) /\ ~FLess(T.f, FromInt(-PanRange))

ViewPoint == [x |-> 0, y |-> 0]

WheelDeltas == {750, -850}

Movements == {<<20, 0>>, <<0, -20>>}

\* Zooming and panning: wheel events of both signs, middle-button drags.
NextView ==
    \/ Construct(TRUE, TRUE)
    \/ \E dy \in WheelDeltas : Wheel(ViewPoint, dy) /\ InPanRange(currentTransform')
    \/ handlePointerDown({}, 1, ViewPoint)
    \/ \E mv \in Movements :
           handlePointerMove({}, ViewPoint, mv, <<>>) /\ InPanRange(currentTransform')
    \/ handlePointerUp

SpecView == Init /\ [][NextView]_vars

LoopMovements == {<<20, 0>>, <<-20, 0>>}

LoopWheelDeltas == {-850}

EventMovement == <<20, 0>>

\* Every handler but the frame tick: the colour picker, pointer-downs of the
\* three buttons, pointermoves that hover, paint or pan, pointer-ups,
\* pointer-leaves and wheel events.
NextEvents ==
    \/ Construct(TRUE, TRUE)
    \/ \E c \in ColorTokens : setFillStyle(c)
    \/ \E b \in Buttons, p \in DragPoints : handlePointerDown(DragWindow, b, p)
    \/ \E p \in DragPoints :
           /\ handlePointerMove(DragWindow, p, EventMovement, <<p>>)
           /\ InPanRange(currentTransform')
    \/ handlePointerUp
    \/ handlePointerLeave
    \/ \E dy \in LoopWheelDeltas : Wheel(ViewPoint, dy) /\ InPanRange(currentTransform')

SpecEvents == Init /\ [][NextEvents]_vars

\* The frame loop among the input events: frame ticks interleaved with
\* pointer-downs of the primary and middle buttons, pointermoves that hover,
\* paint or pan, pointer-ups, pointer-leaves and wheel events.
NextLoop ==
    \/ Construct(TRUE, TRUE)
    \/ FrameTick
    \/ \E b \in {0, 1}, p \in DragPoints : handlePointerDown(DragWindow, b, p)
    \/ \E p \in DragPoints, mv \in LoopMovements :
           /\ handlePointerMove(DragWindow, p, mv, <<p>>)
           /\ InPanRange(currentTransform')
    \/ handlePointerUp
    \/ handlePointerLeave
    \/ \E dy \in LoopWheelDeltas : Wheel(ViewPoint, dy) /\ InPanRange(currentTransform')

SpecLoop == Init /\ [][NextLoop]_vars

\* The browser runs every animation-frame callback it has been given.
SpecLoopFair == SpecLoop /\ WF_vars(FrameTick)

-----------------------------------------------------------------------------
(* Properties of the painted grid *)

\* The stored cells connected to a stored cell through cardinally adjacent
\* stored cells of its colour
RECURSIVE Grow(_, _, _)
Grow(cd, fs, S) ==
    LET next == S \cup {n \in DOMAIN cd :
                          /\ cd[n].fillStyle = fs
                          /\ \E c \in S, d \in Dirs : Adjacent(c, d) = n}
    IN IF next = S THEN S ELSE Grow(cd, fs, next)

Component(cd, coord) == Grow(cd, cd[coord].fillStyle, {coord})

HasLikeNeighbor(cd, coord, d) ==
    /\ Adjacent(coord, d) \in DOMAIN cd
    /\ cd[Adjacent(coord, d)].fillStyle = cd[coord].fillStyle

\* The handler that ran last called paintCell once, on coord, and the call
\* stored a new cell.
JustPainted(coord) == paintCalls = <<[coord |-> coord, painted |-> TRUE]>>

\* C1: after every completed paint, bit D of the mask of every stored cell is
\* set exactly when the cell next to it on side D is stored and has its colour.
C1_AdjacencyMatchesNeighbors ==
    \A coord \in DOMAIN cellData, d \in Dirs :
        /\ cellData[coord].adjacency \in 0..15
        /\ (BitOf(cellData[coord].adjacency, CardinalBit(d)) = 1)
               <=> HasLikeNeighbor(cellData, coord, d)

\* A click has just repainted a stored cell that now has a neighbour of its
\* colour on one side and a neighbour of the other colour on another side.
C1_Witness ==
    \E coord \in DOMAIN cellData, d1, d2 \in Dirs :
        /\ JustPainted(coord)
        /\ nextRegionId >= 2
        /\ HasLikeNeighbor(cellData, coord, d1)
        /\ Adjacent(coord, d2) \in DOMAIN cellData
        /\ cellData[Adjacent(coord, d2)].fillStyle # cellData[coord].fillStyle

\* C2: after every completed paint, two stored cells of one colour that are
\* connected through adjacent cells of that colour have the same regionId.
C2_ConnectedCellsShareRegionId ==
    \A c1 \in DOMAIN cellData :
        \A c2 \in Component(cellData, c1) :
            cellData[c1].regionId = cellData[c2].regionId

\* The centre of the cross has just been painted and is connected to all the
\* other cells of the cross, after at least two regions had been numbered.
C2_Witness ==
    /\ JustPainted(CrossCentre)
    /\ nextRegionId >= 2
    /\ Cross \subseteq Component(cellData, CrossCentre)

\* The step paints coord: paintCell runs once, on coord, and stores a cell.
PaintsCell(coord) == paintCalls' = <<[coord |-> coord, painted |-> TRUE]>>

\* C3: when two components of colour A are separate and a cell X adjacent to
\* both is painted with A, every cell of the two components and X have one
\* regionId afterwards.
C3_BridgeMergesRegions ==
    [][\A X \in GridWindow, d1, d2 \in Dirs :
          LET n1 == Adjacent(X, d1)
              n2 == Adjacent(X, d2)
          IN (/\ PaintsCell(X)
              /\ n1 \in DOMAIN cellData /\ cellData[n1].fillStyle = fillStyle
              /\ n2 \in DOMAIN cellData /\ cellData[n2].fillStyle = fillStyle
              /\ n2 \notin Component(cellData, n1))
             => /\ cellData'[X].fillStyle = fillStyle
                /\ \A c \in Component(cellData, n1) \cup Component(cellData, n2) :
                       /\ cellData'[c].fillStyle = fillStyle
                       /\ cellData'[c].regionId = cellData'[X].regionId]_vars

\* The centre of the cross has just been painted between the cell above it,
\* which touches no other cell of the window, and the middle of the test row,
\* both of its colour.
C3_Witness ==
    /\ JustPainted(CrossCentre)
    /\ HasLikeNeighbor(cellData, CrossCentre, "north")
    /\ HasLikeNeighbor(cellData, CrossCentre, "south")
    /\ cellData[Adjacent(CrossCentre, "north")].regionId
           = cellData[Adjacent(CrossCentre, "south")].regionId

\* C4: when no paint recolours a stored cell, two stored cells of one colour
\* that are not connected through cells of that colour have different
\* regionIds.
C4_SeparateCellsDifferInRegionId ==
    \A c1, c2 \in DOMAIN cellData :
        (/\ cellData[c1].fillStyle = cellData[c2].fillStyle
         /\ c2 \notin Component(cellData, c1))
        => cellData[c1].regionId # cellData[c2].regionId

\* The step is a primary-button pointerdown over coord, which calls
\* paintCell(coord).
ClicksCell(coord) ==
    /\ lastEvent'.type = "pointerdown"
    /\ lastEvent'.button = 0
    /\ coord = eventToCellCoord(currentTransform, lastEvent'.point)

\* C5: paintCell on a coordinate whose stored cell has the active colour
\* changes nothing: the stored cells with their colours, masks, regionIds and
\* links, the region counter and the dirty flag are as before.
C5_SameColourPaintIsNoOp ==
    [][\A coord \in GridWindow :
          (/\ ClicksCell(coord)
           /\ coord \in DOMAIN cellData
           /\ cellData[coord].fillStyle = fillStyle)
          => /\ UNCHANGED <<cellData, detached, nextRegionId, shouldRender>>
             /\ paintCalls' = <<[coord |-> coord, painted |-> FALSE]>>]_vars

\* A click on a cell of the active colour after a redraw: the paint was
\* refused and the dirty flag is still clear.
C5_Witness ==
    /\ lastEvent.type = "pointerdown"
    /\ Len(paintCalls) = 1
    /\ ~paintCalls[1].painted
    /\ paintCalls[1].coord \in DOMAIN cellData
    /\ frame.drawn
    /\ ~shouldRender

\* The grid after painting (r,c), (r,c+1), (r,c+2) in that order with one
\* colour, starting from the empty grid
ChainAfter(origin, fs) ==
    GridOf(PaintEach(HeapOf(<<>>, <<>>), fs, 0,
                     [i \in 1..3 |-> <<origin[1], origin[2] + i - 1>>], 1).heap)

IsChain(cd, origin) ==
    LET c1 == origin
        c2 == <<origin[1], origin[2] + 1>>
        c3 == <<origin[1], origin[2] + 2>>
    IN /\ DOMAIN cd = {c1, c2, c3}
       /\ cd[c1].regionId = cd[c2].regionId
       /\ cd[c2].regionId = cd[c3].regionId
       /\ cd[c1].adjacency = CardinalBit("east")
       /\ cd[c2].adjacency = CardinalBit("east") + CardinalBit("west")
       /\ cd[c3].adjacency = CardinalBit("west")

ChainOrigins == {<<0, 0>>, <<gridOffset + 10, gridOffset + 10>>}

\* C6: from the empty grid, painting (r,c), (r,c+1), (r,c+2) in that order
\* with one colour gives the three one regionId and the masks 0100, 0101 and
\* 0001; the constructor's test row is such a run.
C6_ChainOfThree ==
    (lastEvent.type = "construct" /\ lastEvent.ok)
    => /\ IsChain(cellData, <<gridOffset + testShapes[1][1],
                              gridOffset + testShapes[1][2]>>)
       /\ \A origin \in ChainOrigins, fs \in ColorTokens :
              IsChain(ChainAfter(origin, fs), origin)

\* The constructor has just painted its three test cells on the empty grid.
C6_Witness ==
    /\ lastEvent.type = "construct"
    /\ lastEvent.ok
    /\ Len(paintCalls) = 3
    /\ \A i \in 1..3 : paintCalls[i].painted /\ paintCalls[i].coord \in DOMAIN cellData
    /\ paintCalls[2].coord = Adjacent(paintCalls[1].coord, "east")
    /\ paintCalls[3].coord = Adjacent(paintCalls[2].coord, "east")

\* C7: when the four neighbours of X are stored with colour A and X is painted
\* with another colour, the mask of X is 0 and each neighbour has its bit
\* facing X clear and its other three bits as before.
C7_SurroundedByOtherColour ==
    [][\A X \in GridWindow, A \in ColorTokens :
          (/\ PaintsCell(X)
           /\ A # fillStyle
           /\ \A d \in Dirs : /\ Adjacent(X, d) \in DOMAIN cellData
                              /\ cellData[Adjacent(X, d)].fillStyle = A)
          => /\ cellData'[X].fillStyle = fillStyle
             /\ cellData'[X].adjacency = 0
             /\ \A d \in Dirs :
                    LET n == Adjacent(X, d)
                    IN /\ cellData'[n].fillStyle = A
                       /\ BitOf(cellData'[n].adjacency, CardinalBit(Opposite(d))) = 0
                       /\ \A other \in Dirs \ {Opposite(d)} :
                              BitOf(cellData'[n].adjacency, CardinalBit(other))
                                  = BitOf(cellData[n].adjacency, CardinalBit(other))]_vars

\* The centre of the cross has just been painted in one colour while its four
\* neighbours have the other.
C7_Witness ==
    /\ JustPainted(CrossCentre)
    /\ \E A \in ColorTokens :
           /\ A # cellData[CrossCentre].fillStyle
           /\ \A d \in Dirs : /\ Adjacent(CrossCentre, d) \in DOMAIN cellData
                              /\ cellData[Adjacent(CrossCentre, d)].fillStyle = A

C9_ScaleWithinBounds ==
    /\ ~FLess(currentScale(currentTransform), minScale)
    /\ ~FLess(maxScale, currentScale(currentTransform))

\* C10: a pointermove with N coalesced sub-events received in Paint mode calls
\* paintCell N times, on the cell under each sub-event's point in the order of
\* the list; received in Rest mode it calls paintCell zero times.
C10_OnePaintPerCoalescedEvent ==
    [][lastEvent'.type = "pointermove"
       => LET co == lastEvent'.coalesced
          IN /\ cursorMode = CursorModePaint
                => /\ Len(paintCalls') = Len(co)
                   /\ \A i \in 1..Len(co) :
                          paintCalls'[i].coord = eventToCellCoord(currentTransform, co[i])
             /\ cursorMode = CursorModeRest => paintCalls' = <<>>]_vars

\* A pointermove in Paint mode has just carried two sub-events over two
\* different cells, and both calls painted.
C10_Witness ==
    /\ lastEvent.type = "pointermove"
    /\ cursorMode = CursorModePaint
    /\ Len(lastEvent.coalesced) = 2
    /\ Len(paintCalls) = 2
    /\ paintCalls[1].coord # paintCalls[2].coord
    /\ paintCalls[1].painted /\ paintCalls[2].painted

\* A pointermove in Rest mode has just carried two sub-events and painted
\* nothing.
C10_WitnessRest ==
    /\ lastEvent.type = "pointermove"
    /\ cursorMode = CursorModeRest
    /\ Len(lastEvent.coalesced) = 2
    /\ paintCalls = <<>>

-----------------------------------------------------------------------------
(* Properties of the pointer state machine *)

\* C11: from any mode, a primary-button pointerdown sets the mode to Paint and
\* paints the cell under the pointer with the active colour; a middle-button
\* pointerdown sets the mode to Pan and paints nothing; every pointerup sets
\* the mode to Rest; the mode is never Erase.
C11_CursorModeTransitions ==
    /\ [](cursorMode # CursorModeErase)
    /\ [][/\ (lastEvent'.type = "pointerdown" /\ lastEvent'.button = 0)
             => LET coord == eventToCellCoord(currentTransform, lastEvent'.point)
                IN /\ cursorMode' = CursorModePaint
                   /\ Len(paintCalls') = 1
                   /\ paintCalls'[1].coord = coord
                   /\ paintCalls'[1].painted
                          <=> (coord \notin DOMAIN cellData
                               \/ cellData[coord].fillStyle # fillStyle)
                   /\ coord \in DOMAIN cellData'
                   /\ cellData'[coord].fillStyle = fillStyle
          /\ (lastEvent'.type = "pointerdown" /\ lastEvent'.button = 1)
             => /\ cursorMode' = CursorModePan
                /\ paintCalls' = <<>>
                /\ UNCHANGED <<cellData, detached, nextRegionId>>
          /\ lastEvent'.type = "pointerup" => cursorMode' = CursorModeRest]_vars

\* A primary-button pointerdown has just painted the cell above the test row
\* in the second colour: the mode is Paint and the drag is routed to window.
C11_Witness ==
    /\ lastEvent.type = "pointerdown"
    /\ lastEvent.button = 0
    /\ cursorMode = CursorModePaint
    /\ JustPainted(<<gridOffset + 9, gridOffset + 10>>)
    /\ cellData[<<gridOffset + 9, gridOffset + 10>>].fillStyle = colors.blue
    /\ fillStyle = colors.blue

RoutedTo(handlers, other) ==
    /\ {"pointermove", "pointerup"} \subseteq handlers
    /\ {"pointermove", "pointerup"} \cap other = {}

\* C12: after every pointerdown the pointermove and pointerup handlers are on
\* window and not on the canvas; after the next pointerup they are on the
\* canvas and not on window and the mode is Rest; the pointermove handler is
\* always on exactly one of the two, and the mode is Paint or Pan only while
\* the handlers are on window.
C12_PointerRouting ==
    /\ [](phase = "ready"
          => /\ ("pointermove" \in canvasHandlers) # ("pointermove" \in windowHandlers)
             /\ cursorMode \in {CursorModePaint, CursorModePan}
                => RoutedTo(windowHandlers, canvasHandlers))
    /\ [][/\ lastEvent'.type = "pointerdown"
             => RoutedTo(windowHandlers', canvasHandlers')
          /\ lastEvent'.type = "pointerup"
             => /\ RoutedTo(canvasHandlers', windowHandlers')
                /\ cursorMode' = CursorModeRest]_vars

\* A pointerup has just ended a drag that painted the cell above the test
\* row: the handlers are back on the canvas and the mode is Rest.
C12_Witness ==
    /\ lastEvent.type = "pointerup"
    /\ cursorMode = CursorModeRest
    /\ RoutedTo(canvasHandlers, windowHandlers)
    /\ <<gridOffset + 9, gridOffset + 10>> \in DOMAIN cellData

-----------------------------------------------------------------------------
(* Properties of the transform *)

\* The step is a pointermove received in Pan mode, which calls handlePan.
PansBy(movement) ==
    /\ lastEvent'.type = "pointermove"
    /\ cursorMode = CursorModePan
    /\ lastEvent'.movement = movement

\* The least exponent of two numbers, at most 0
LeastExponent(a, b) ==
    LET lo == IF a.x < b.x THEN a.x ELSE b.x
    IN IF lo < 0 THEN lo ELSE 0

\* A number in units of 2^lo, for lo at most its exponent
Units(a, lo) == a.m * Pow2(a.x - lo)

\* after = before + d up to the rounding of the three operations of a pan
\* (a division, a multiplication and an addition, each within 2^-FloatBits):
\* |after - before - d| <= (3 |d| + 2 |after|) / 2^FloatBits
MovedBy(before, after, d) ==
    LET lo == LeastExponent(before, after)
        one == Pow2(-lo)
    IN Pow2(FloatBits) * Abs(Units(after, lo) - Units(before, lo) - d * one)
           <= 3 * Abs(d) * one + 2 * Abs(Units(after, lo))

\* after = before + d / scale to within half of |d / scale|:
\* 2 |scale (after - before) - d| <= |d|
MovedByQuotient(before, after, d, scale) ==
    LET lo == LeastExponent(before, after)
        ls == LeastExponent(scale, scale)
        one == Pow2(-lo) * Pow2(-ls)
    IN 2 * Abs(Units(scale, ls) * (Units(after, lo) - Units(before, lo)) - d * one)
           <= Abs(d) * one

\* C13, as amended: a pointermove in Pan mode with movement (dx, dy) changes
\* the pan offset (panX, panY) by (dx, dy) up to rounding, whatever the scale,
\* leaves the scale unchanged and sets the dirty flag.
C13_PanMovesOffsetByDelta ==
    [][\A mv \in Movements :
          PansBy(mv)
          => /\ MovedBy(panX(currentTransform), panX(currentTransform'), mv[1])
             /\ MovedBy(panY(currentTransform), panY(currentTransform'), mv[2])
             /\ currentScale(currentTransform') = currentScale(currentTransform)
             /\ shouldRender']_vars

\* C13, as stated: a pointermove in Pan mode with movement (dx, dy) changes
\* the pan offset by (dx, dy) divided by the scale, leaves the scale unchanged
\* and sets the dirty flag.
C13_PanMovesOffsetByDeltaOverScale ==
    [][\A mv \in Movements :
          PansBy(mv)
          => /\ MovedByQuotient(panX(currentTransform), panX(currentTransform'),
                                mv[1], currentScale(currentTransform))
             /\ MovedByQuotient(panY(currentTransform), panY(currentTransform'),
                                mv[2], currentScale(currentTransform))
             /\ currentScale(currentTransform') = currentScale(currentTransform)
             /\ shouldRender']_vars

\* A pointermove in Pan mode has just moved the view horizontally at a scale
\* above 2.
C13_Witness ==
    /\ lastEvent.type = "pointermove"
    /\ cursorMode = CursorModePan
    /\ lastEvent.movement[1] # 0
    /\ FLess(FromInt(2), currentScale(currentTransform))
    /\ panX(currentTransform) # FromInt(0)
    /\ shouldRender

-----------------------------------------------------------------------------
(* Properties of the region ids *)

\* The stored neighbours of coord that have the colour fs
LikeNeighbors(cd, fs, coord) ==
    {n \in {Adjacent(coord, d) : d \in Dirs} : n \in DOMAIN cd /\ cd[n].fillStyle = fs}

\* C14: a paint that stores a cell advances the region counter by one and
\* gives the cell the fresh id exactly when no stored neighbour of the target
\* has the active colour; otherwise the counter is unchanged and the cell
\* takes an id that one of its neighbours of the active colour held before.
\* The counter never decreases and every regionId is in 0..counter-1.
C14_RegionIdAllocation ==
    /\ [](/\ nextRegionId >= 0
          /\ \A coord \in DOMAIN cellData :
                 cellData[coord].regionId \in 0..(nextRegionId - 1))
    /\ [][/\ nextRegionId' >= nextRegionId
          /\ \A X \in GridWindow :
                 PaintsCell(X)
                 => LET like == LikeNeighbors(cellData, fillStyle, X)
                    IN IF like = {}
                       THEN /\ nextRegionId' = nextRegionId + 1
                            /\ cellData'[X].regionId = nextRegionId
                       ELSE /\ nextRegionId' = nextRegionId
                            /\ cellData'[X].regionId
                                   \in {cellData[n].regionId : n \in like}]_vars

\* A click has just painted the centre of the cross with a fresh id while all
\* four of its neighbours are stored with the other colour.
C14_Witness ==
    /\ JustPainted(CrossCentre)
    /\ nextRegionId >= 2
    /\ cellData[CrossCentre].regionId = nextRegionId - 1
    /\ \A d \in Dirs : /\ Adjacent(CrossCentre, d) \in DOMAIN cellData
                       /\ ~HasLikeNeighbor(cellData, CrossCentre, d)

\* C15: a paint with the active colour never changes the regionId of a stored
\* cell whose colour after the paint is another colour; when repainting X
\* cuts a region of colour A, every cell of the region other than X keeps the
\* regionId it had.
C15_NoRepartition ==
    [][/\ \A coord \in DOMAIN cellData :
              /\ coord \in DOMAIN cellData'
              /\ cellData'[coord].fillStyle # fillStyle'
                 => cellData'[coord].regionId = cellData[coord].regionId
       /\ \A X \in DOMAIN cellData :
              (PaintsCell(X) /\ cellData[X].fillStyle # fillStyle)
              => \A coord \in Component(cellData, X) \ {X} :
                     /\ cellData'[coord].fillStyle = cellData[X].fillStyle
                     /\ cellData'[coord].regionId = cellData[coord].regionId]_vars

\* The centre of the cross has just been repainted while its four neighbours
\* have the other colour and one regionId among them: the cell above the
\* centre no longer touches a cell of its colour and keeps the shared id.
C15_Witness ==
    /\ JustPainted(CrossCentre)
    /\ \A d \in Dirs :
           /\ Adjacent(CrossCentre, d) \in DOMAIN cellData
           /\ cellData[Adjacent(CrossCentre, d)].fillStyle # cellData[CrossCentre].fillStyle
           /\ cellData[Adjacent(CrossCentre, d)].regionId
                  = cellData[Adjacent(CrossCentre, "north")].regionId
    /\ cellData[CrossCentre].regionId # cellData[Adjacent(CrossCentre, "north")].regionId

\* C17: the flood fill of a paint stops at colour mismatches: a paint changes
\* the regionId only of cells connected to the painted cell through adjacent
\* cells of the painted colour; every other stored cell keeps its regionId.
C17_FloodStopsAtColourMismatch ==
    [][\A X \in GridWindow :
          PaintsCell(X)
          => \A coord \in DOMAIN cellData \ Component(cellData', X) :
                 cellData'[coord].regionId = cellData[coord].regionId]_vars

-----------------------------------------------------------------------------
(* Properties of construction and of the frame loop *)

\* C16: construction fails when the canvas is missing or when the 2D context
\* cannot be acquired, and then no handler is registered, no frame callback
\* is scheduled and no cell is painted.
C16_ConstructionFailsEarly ==
    /\ [](phase = "failed"
          => /\ canvasHandlers = {} /\ windowHandlers = {}
             /\ pendingFrames = 0
             /\ ~frame.drawn
             /\ cellData = <<>> /\ nextRegionId = 0
             /\ paintCalls = <<>>)
    /\ [][lastEvent'.type = "construct"
          => /\ (~lastEvent'.canvas \/ ~lastEvent'.context) <=> phase' = "failed"
             /\ (lastEvent'.canvas /\ lastEvent'.context) <=> phase' = "ready"]_vars

\* Construction has just failed with a canvas whose getContext returned null.
C16_Witness ==
    /\ phase = "failed"
    /\ lastEvent.type = "construct"
    /\ lastEvent.canvas
    /\ ~lastEvent.context
    /\ canvasHandlers = {}

\* The picture fr is the grid cd (coordinates, colours, and a stroked side
\* exactly where a mask bit is unset) under the transform T with the hover
\* cell hover.
Shows(fr, cd, T, hover) ==
    /\ fr.drawn
    /\ fr.transform = T
    /\ fr.hover = hover
    /\ DOMAIN fr.cells = DOMAIN cd
    /\ \A coord \in DOMAIN cd : fr.cells[coord] = cd[coord].fillStyle
    /\ fr.borders \subseteq (DOMAIN cd) \X Dirs
    /\ \A coord \in DOMAIN cd, d \in Dirs :
           (<<coord, d>> \in fr.borders) <=> BitOf(cd[coord].adjacency, CardinalBit(d)) = 0

\* C18: a frame tick redraws exactly when the dirty flag is set as it runs;
\* the flag is clear after every tick; every tick schedules one next tick, so
\* that one frame callback is pending at all times after construction.
C18_TickRedrawsWhenDirty ==
    /\ [](pendingFrames = IF phase = "ready" THEN 1 ELSE 0)
    /\ [][lastEvent'.type = "frame"
          => /\ ~shouldRender'
             /\ pendingFrames' = 1
             /\ UNCHANGED <<cellData, currentTransform, mouseCellCoord>>
             /\ IF shouldRender
                THEN Shows(frame', cellData, currentTransform, mouseCellCoord)
                ELSE frame' = frame]_vars

\* A tick has just run with four cells stored, a hover cell and a transform
\* that is not the identity: the flag is clear and one callback is pending.
C18_Witness ==
    /\ lastEvent.type = "frame"
    /\ ~shouldRender
    /\ pendingFrames = 1
    /\ frame.drawn
    /\ Cardinality(DOMAIN cellData) = 4
    /\ mouseCellCoord # undefined
    /\ currentTransform # Identity

-----------------------------------------------------------------------------
(* Properties of the neighbour links *)

\* C21: after every completed paint, the link on side D of every stored cell
\* is the object stored at the adjacent coordinate, and is absent exactly when
\* nothing is stored there; no link refers to an object that a repaint
\* replaced.
C21_LinksAreCurrent ==
    /\ detached = <<>>
    /\ \A coord \in DOMAIN cellData, d \in Dirs :
           IF Adjacent(coord, d) \in DOMAIN cellData
           THEN /\ d \in DOMAIN cellData[coord].neighbors
                /\ cellData[coord].neighbors[d] = Ref(Adjacent(coord, d), 0)
           ELSE d \notin DOMAIN cellData[coord].neighbors

\* A click has just painted the centre of the cross while its four neighbours
\* are stored, the one above in the centre's colour and the one to the west
\* in the other colour, after at least three regions were numbered.
C21_Witness ==
    /\ JustPainted(CrossCentre)
    /\ nextRegionId >= 3
    /\ \A d \in Dirs : Adjacent(CrossCentre, d) \in DOMAIN cellData
    /\ HasLikeNeighbor(cellData, CrossCentre, "north")
    /\ ~HasLikeNeighbor(cellData, CrossCentre, "west")

-----------------------------------------------------------------------------
(* Frame conditions of the handlers *)

\* The coordinates at which the last handler's paintCell calls stored a cell
PaintedCoords(calls) == {calls[i].coord : i \in {j \in 1..Len(calls) : calls[j].painted}}

\* The step runs paintCell: the initial test shapes, a primary-button
\* pointerdown, or a pointermove received in Paint mode.
RunsPaintCell ==
    \/ lastEvent'.type = "construct"
    \/ lastEvent'.type = "pointerdown" /\ lastEvent'.button = 0
    \/ lastEvent'.type = "pointermove" /\ cursorMode = CursorModePaint

\* C22: the stored cells and the region counter are changed only by paintCell,
\* which runs only for the test shapes, on a primary-button pointerdown and on
\* a pointermove in Paint mode; every other handler leaves them unchanged, and
\* no coordinate becomes stored unless paintCell painted it.
C22_OnlyPaintCellChangesGrid ==
    [][/\ RunsPaintCell \/ (UNCHANGED <<cellData, detached, nextRegionId>>
                            /\ paintCalls' = <<>>)
       /\ (DOMAIN cellData') \ (DOMAIN cellData) \subseteq PaintedCoords(paintCalls')
       /\ PaintedCoords(paintCalls') = {}
          => UNCHANGED <<cellData, detached, nextRegionId>>]_vars

\* A pointermove in Pan mode has just moved a zoomed view in the second
\* colour, with the cell above the test row painted earlier, and has called
\* paintCell on nothing.
C22_Witness ==
    /\ lastEvent.type = "pointermove"
    /\ cursorMode = CursorModePan
    /\ fillStyle = colors.blue
    /\ currentScale(currentTransform) # FromInt(1)
    /\ panX(currentTransform) # FromInt(0)
    /\ <<gridOffset + 9, gridOffset + 10>> \in DOMAIN cellData
    /\ paintCalls = <<>>

\* C24: a pointerleave clears the hover cell and sets the dirty flag, and
\* leaves the cursor mode, the listeners on both targets, the transform and
\* the stored cells unchanged.
C24_PointerLeave ==
    [][lastEvent'.type = "pointerleave"
       => /\ mouseCellCoord' = undefined
          /\ shouldRender'
          /\ UNCHANGED <<cursorMode, canvasHandlers, windowHandlers, currentTransform,
                         cellData, detached, nextRegionId, fillStyle, frame>>]_vars

\* The pointer has just left the canvas during a pan drag, after a redraw
\* that showed a hover cell under the current transform: the mode is still
\* Pan and the handlers are still on window.
C24_Witness ==
    /\ lastEvent.type = "pointerleave"
    /\ cursorMode = CursorModePan
    /\ RoutedTo(windowHandlers, canvasHandlers)
    /\ mouseCellCoord = undefined
    /\ shouldRender
    /\ frame.drawn
    /\ frame.hover # undefined
    /\ frame.transform = currentTransform

-----------------------------------------------------------------------------
(* Termination of the flood fill *)

\* C23: the flood fill of a paintCell call ends after entering each stored
\* cell at most once: the cells visitCell enters are stored cells with
\* pairwise different ids, so there are no more of them than stored cells,
\* although the links lead back to cells already entered; they are the cells
\* linked to the painted cell, and the walk leaves the grid the call leaves.
C23_FloodVisitsEachCellOnce ==
    [][\A X \in GridWindow :
          PaintsCell(X) =>
              LET H1 == paintCellStored(Heap, fillStyle, nextRegionId, X)
                  w == floodWalk(H1, fillStyle, Ref(X, 0))
                  n == Len(w.entered)
              IN /\ \A i, j \in 1..n : CellId(w.entered[i]) = CellId(w.entered[j]) => i = j
                 /\ \A i \in 1..n : Stored(H1, CoordOf(w.entered[i])) /\ w.entered[i][3] = 0
                 /\ n <= Cardinality(DOMAIN cellData')
                 /\ {w.entered[i] : i \in 1..n} = Reachable(H1, {Ref(X, 0)})
                 /\ Collect(w.heap) = HeapOf(cellData', detached')]_vars

\* The centre of the cross has just been painted with all seven cells of the
\* window stored: the centre closes two 2x2 blocks, and every pair of
\* adjacent cells links to each other.
C23_Witness ==
    /\ JustPainted(CrossCentre)
    /\ DOMAIN cellData = GridWindow
    /\ \A coord \in GridWindow, d \in Dirs :
           Adjacent(coord, d) \in GridWindow
           => /\ d \in DOMAIN cellData[coord].neighbors
              /\ Opposite(d) \in DOMAIN cellData[Adjacent(coord, d)].neighbors

====
